---- MODULE Spec2Model ----
(***************************************************************************)
(* Model of zytempmqtt/ZyTemp.py: the session loop ZyTemp.run, the         *)
(* snapshot cache ZyTemp.update, the calibration counter, the MQTT         *)
(* discovery step and the byte transform decrypt.                          *)
(*                                                                         *)
(* Frames are functions on 0..7 (the source's indices).  An optional       *)
(* value is a sequence: None is <<>>, a stored value v is <<v>>.           *)
(* A Temperature reading x / 16 - 273.15 is kept exactly, as the integer   *)
(* 100 * x - 437040 in units of 1/1600 degree C (the float result is       *)
(* injective in x, so equality of readings is equality of these integers). *)
(***************************************************************************)
EXTENDS Integers, Sequences, FiniteSets, TLC

VARIABLES
    pc,                     \* position of the single thread of control
    discovery_prefix,       \* self.cfg.discovery_prefix
    measurements_to_ignore, \* self.measurements_to_ignore
    values,                 \* self.values: name -> None or a reading
    raw,                    \* the bytes returned by self.h.read(8)
    r,                      \* the local r of run(): raw, or decrypt(KEY, raw)
    m_name,                 \* local m_name of run()
    m_reading,              \* local m_reading of run()
    ignore,                 \* local ignore of run()
    published,              \* snapshots passed to self.m.publish(mqtt_topic, ...)
    discovered,             \* names whose discovery document was published
    feature_reports,        \* payloads passed to self.h.send_feature_report
    closes,                 \* number of calls of self.h.close()
    pumps,                  \* calls of self.m.run(0.1) since the last device read
    unpumped,               \* snapshot publishes since the last self.m.run(0.1)
    lastUpdate,             \* outcome of the last call of update()
    readResult,             \* how the last self.h.read(8) ended
    nReads,                 \* device reads that returned a frame
    nCO2,                   \* decoded CO2 readings so far
    nTemp,                  \* decoded Temperature readings so far
    lateSeen,               \* <<name, reading>> decoded after the 5th decoded CO2 reading
    dec_in,                 \* a pair of 8-byte inputs of decrypt (transform check only)
    dec_out                 \* decrypt(KEY, .) of the two inputs, <<>> before the call

vars == <<pc, discovery_prefix, measurements_to_ignore, values, raw, r, m_name,
          m_reading, ignore, published, discovered, feature_reports, closes,
          pumps, unpumped, lastUpdate, readResult, nReads, nCO2, nTemp,
          lateSeen, dec_in, dec_out>>

----------------------------------------------------------------------------
(* Bounds of the model *)

\* device reads that return a frame in one session
MaxReads == 9

----------------------------------------------------------------------------
(* Bytes *)

Byte == 0..255

RECURSIVE BitsOp(_, _, _, _)
\* bitwise combination of a and b over n bits; op is "xor", "or" or "and"
BitsOp(op, a, b, n) ==
    IF n = 0 THEN 0
    ELSE LET x == a % 2
             y == b % 2
             bit == CASE op = "xor" -> (x + y) % 2
                      [] op = "or"  -> IF x + y > 0 THEN 1 ELSE 0
                      [] OTHER      -> x * y
         IN  bit + 2 * BitsOp(op, a \div 2, b \div 2, n - 1)

\* Python's ^, | and & on non-negative integers below 2^16
Xor(a, b) == BitsOp("xor", a, b, 16)
Or(a, b)  == BitsOp("or", a, b, 16)
And(a, b) == BitsOp("and", a, b, 16)

\* Python's >> and << on non-negative integers
RECURSIVE Pow2(_)
Pow2(n) == IF n = 0 THEN 1 ELSE 2 * Pow2(n - 1)
Shr(a, n) == a \div Pow2(n)
Shl(a, n) == a * Pow2(n)

\* an 8-byte list written as a tuple, indexed from 0 as in the source
Bytes8(t) == [i \in 0..7 |-> t[i + 1]]

----------------------------------------------------------------------------
(* Constants of the program *)

IGNORE_N_MEASUREMENTS == 5

KEY == Bytes8(<<196, 198, 192, 146, 64, 35, 220, 150>>)

\* a feature report whose last byte differs from the key's
FEATURE_REPORT_typo == Bytes8(<<196, 198, 192, 146, 64, 35, 220, 105>>)

\* the literal passed to send_feature_report in __init__
FEATURE_REPORT == Bytes8(<<196, 198, 192, 146, 64, 35, 220, 150>>)

None == <<>>

\* tags of ZyTemp.MEASUREMENTS
MeasurementTags == {66, 80}

Names == {"Temperature", "CO2"}

\* m['name'] of ZyTemp.MEASUREMENTS[tag]
MeasName(tag) == IF tag = 66 THEN "Temperature" ELSE "CO2"

\* the Temperature conversion with the offset 273 instead of 273.15
Conversion_offset(tag, x) == IF tag = 66 THEN 100 * x - 436800 ELSE x

\* m['conversion'](x) of ZyTemp.MEASUREMENTS[tag]; Temperature in 1/1600 degree C
Conversion(tag, x) == IF tag = 66 THEN 100 * x - 437040 ELSE x

----------------------------------------------------------------------------
(* decrypt(key, data) *)

cstate == Bytes8(<<72, 116, 101, 109, 112, 57, 57, 101>>)
shuffle == Bytes8(<<2, 4, 0, 7, 1, 6, 5, 3>>)

\* decrypt whose phase3 drops the bits carried over from the neighbouring byte
decrypt_noCarry(key, data) ==
    LET phase1 == [o \in 0..7 |-> data[CHOOSE i \in 0..7 : shuffle[i] = o]]
        phase2 == [i \in 0..7 |-> Xor(phase1[i], key[i])]
        phase3 == [i \in 0..7 |-> And(Shr(phase2[i], 3), 255)]
        ctmp   == [i \in 0..7 |-> And(Or(Shr(cstate[i], 4), Shl(cstate[i], 4)), 255)]
    IN  [i \in 0..7 |-> And(256 + phase3[i] - ctmp[i], 255)]

decrypt(key, data) ==
    LET phase1 == [o \in 0..7 |-> data[CHOOSE i \in 0..7 : shuffle[i] = o]]
        phase2 == [i \in 0..7 |-> Xor(phase1[i], key[i])]
        phase3 == [i \in 0..7 |->
                     And(Or(Shr(phase2[i], 3), Shl(phase2[(i - 1 + 8) % 8], 5)), 255)]
        ctmp   == [i \in 0..7 |-> And(Or(Shr(cstate[i], 4), Shl(cstate[i], 4)), 255)]
    IN  [i \in 0..7 |-> And(256 + phase3[i] - ctmp[i], 255)]

----------------------------------------------------------------------------
(* Device reports the model feeds to self.h.read(8) *)

\* reports with r[4] = 0x0d, taken as they are
PlainReports == {
    Bytes8(<<66, 17, 148, 231, 13, 0, 0, 0>>),   \* Temperature 4500, checksum ok
    Bytes8(<<80, 2, 88, 170, 13, 0, 0, 0>>),     \* CO2 600, checksum ok
    Bytes8(<<66, 17, 148, 232, 13, 0, 0, 0>>),   \* Temperature 4500, checksum wrong
    Bytes8(<<65, 26, 43, 134, 13, 0, 0, 0>>) }   \* tag 0x41, checksum ok

\* reports with r[4] # 0x0d; the comment gives decrypt(KEY, report)[0..3]
EncryptedReports == {
    Bytes8(<<149, 228, 246, 32, 1, 70, 191, 122>>),    \* 66, 17, 148, 231: Temperature 4500
    Bytes8(<<119, 228, 246, 32, 14, 70, 191, 194>>),   \* 66, 18, 192, 20: Temperature 4800
    Bytes8(<<180, 228, 102, 32, 139, 70, 191, 146>>),  \* 80, 2, 88, 170: CO2 600
    Bytes8(<<245, 228, 102, 32, 129, 70, 191, 42>>),   \* 80, 1, 144, 225: CO2 400
    Bytes8(<<180, 228, 102, 32, 139, 70, 191, 154>>),  \* 80, 2, 88, 171: checksum wrong
    Bytes8(<<157, 228, 78, 33, 91, 70, 191, 178>>) }   \* 109, 12, 85, 206: tag 0x6d

RawFrames == PlainReports \cup EncryptedReports

NoFrame == [i \in 0..7 |-> 0]

----------------------------------------------------------------------------
(* ZyTemp.__init__ *)

Init ==
    /\ pc = "start"
    /\ discovery_prefix \in {"", "homeassistant"}
    /\ measurements_to_ignore = IGNORE_N_MEASUREMENTS
    /\ values = [n \in Names |-> None]
    /\ raw = NoFrame
    /\ r = NoFrame
    /\ m_name = "-"
    /\ m_reading = 0
    /\ ignore = FALSE
    /\ published = <<>>
    /\ discovered = <<>>
    /\ feature_reports = <<FEATURE_REPORT>>
    /\ closes = 0
    /\ pumps = 0
    /\ unpumped = 0
    /\ lastUpdate = "-"
    /\ readResult = "-"
    /\ nReads = 0
    /\ nCO2 = 0
    /\ nTemp = 0
    /\ lateSeen = {}
    /\ dec_in = <<>>
    /\ dec_out = <<>>

----------------------------------------------------------------------------
(* ZyTemp.discovery *)

\* the measurement names in the order of ZyTemp.MEASUREMENTS.values()
DiscoveryDocs == <<"Temperature", "CO2">>

\* discovery without the test of the prefix of lines 54-55
Discovery_noPrefixTest ==
    /\ pc = "start"
    /\ discovered' = discovered \o DiscoveryDocs
    /\ pumps' = pumps + 1
    /\ pc' = "read"
    /\ UNCHANGED <<lateSeen, dec_in, dec_out>>
    /\ UNCHANGED <<readResult, discovery_prefix, measurements_to_ignore, values, raw, r,
                   m_name, m_reading, ignore, published, feature_reports, closes,
                   unpumped, lastUpdate, nReads, nCO2, nTemp>>

Discovery ==
    /\ pc = "start"
    /\ IF discovery_prefix = ""
       THEN UNCHANGED <<discovered, pumps>>
       ELSE /\ discovered' = discovered \o DiscoveryDocs
            /\ pumps' = pumps + 1
    /\ pc' = "read"
    /\ UNCHANGED <<lateSeen, dec_in, dec_out>>
    /\ UNCHANGED <<readResult, discovery_prefix, measurements_to_ignore, values, raw, r, m_name,
                   m_reading, ignore, published, feature_reports, closes, unpumped,
                   lastUpdate, nReads, nCO2, nTemp>>

----------------------------------------------------------------------------
(* ZyTemp.update *)

\* any(v is None for v in self.values.values())
AnyNone(vals) == \E n \in Names : vals[n] = None

\* update without the completeness test of lines 92-93
update_partial(vals, key, value) ==
    IF vals[key] = <<value>>
    THEN [values |-> vals, publish |-> <<>>, outcome |-> "same"]
    ELSE LET stored == [vals EXCEPT ![key] = <<value>>]
         IN  [values |-> stored, publish |-> <<stored>>, outcome |-> "published"]

\* update without the equality test of lines 87-88
update_noDedup(vals, key, value) ==
    LET stored == [vals EXCEPT ![key] = <<value>>]
    IN  IF AnyNone(stored)
        THEN [values |-> stored, publish |-> <<>>, outcome |-> "incomplete"]
        ELSE [values |-> stored, publish |-> <<stored>>, outcome |-> "published"]

\* update publishing the cache as it was before the store of line 90
update_stale(vals, key, value) ==
    IF vals[key] = <<value>>
    THEN [values |-> vals, publish |-> <<>>, outcome |-> "same"]
    ELSE LET stored == [vals EXCEPT ![key] = <<value>>]
         IN  IF AnyNone(stored)
             THEN [values |-> stored, publish |-> <<>>, outcome |-> "incomplete"]
             ELSE [values |-> stored, publish |-> <<vals>>, outcome |-> "published"]

\* update storing into a cache rebuilt from the empty template of line 46
update_rebuild(vals, key, value) ==
    IF vals[key] = <<value>>
    THEN [values |-> vals, publish |-> <<>>, outcome |-> "same"]
    ELSE LET stored == [n \in Names |-> IF n = key THEN <<value>> ELSE None]
         IN  IF AnyNone(stored)
             THEN [values |-> stored, publish |-> <<>>, outcome |-> "incomplete"]
             ELSE [values |-> stored, publish |-> <<stored>>, outcome |-> "published"]

\* update(key, value) on the cache vals: the cache after the call, the snapshots
\* passed to publish (none or one) and which return was taken
update(vals, key, value) ==
    IF vals[key] = <<value>>
    THEN [values |-> vals, publish |-> <<>>, outcome |-> "same"]
    ELSE LET stored == [vals EXCEPT ![key] = <<value>>]
         IN  IF AnyNone(stored)
             THEN [values |-> stored, publish |-> <<>>, outcome |-> "incomplete"]
             ELSE [values |-> stored, publish |-> <<stored>>, outcome |-> "published"]

----------------------------------------------------------------------------
(* ZyTemp.run: one step per statement group of the loop body *)

\* the transform applied to every report, the test of line 111 left out
Candidate_always(data) == decrypt(KEY, data)

\* r after lines 111-113
Candidate(data) == IF data[4] # 13 THEN decrypt(KEY, data) ELSE data

\* the checksum compared without the mask & 0xff
ChecksumOk_noMask(f) == f[3] = f[0] + f[1] + f[2]

\* the negation of the test of line 115
ChecksumOk(f) == f[3] = And(f[0] + f[1] + f[2], 255)

\* m_val of line 120
MVal(f) == Or(Shl(f[1], 8), f[2])

\* whether ZyTemp.MEASUREMENTS[m_type] raises no KeyError
KnownType(f) == f[0] \in MeasurementTags

\* the gate opening one reading early
Ignore_offByOne(counter) == counter > 1

\* ignore of line 131
Ignore(counter) == counter > 0

\* the counter decremented by a reading of any kind
AfterReading_anyKind(name, counter) ==
    IF counter # 0 THEN counter - 1 ELSE counter

\* the counter after lines 140-141
AfterReading(name, counter) ==
    IF name = "CO2" /\ counter # 0 THEN counter - 1 ELSE counter

\* Candidate on the reports of the model, computed once
CandidateOf == [data \in RawFrames |-> Candidate(data)]

\* self.h.read(8) returns a report; lines 111-113 run
ReadFrame ==
    /\ pc = "read"
    /\ nReads < MaxReads
    /\ \E data \in RawFrames :
          /\ raw' = data
          /\ r' = CandidateOf[data]
    /\ nReads' = nReads + 1
    /\ pumps' = 0
    /\ readResult' = "frame"
    /\ pc' = "check"
    /\ UNCHANGED <<lateSeen, dec_in, dec_out>>
    /\ UNCHANGED <<discovery_prefix, measurements_to_ignore, values, m_name, m_reading,
                   ignore, published, discovered, feature_reports, closes, unpumped,
                   lastUpdate, nCO2, nTemp>>

\* an OS error that is logged and retried instead of returned from
ReadOSError_retry ==
    /\ pc = "read"
    /\ readResult' = "oserror"
    /\ pc' = "read"
    /\ UNCHANGED <<lateSeen, dec_in, dec_out>>
    /\ UNCHANGED <<discovery_prefix, measurements_to_ignore, values, raw, r, m_name,
                   m_reading, ignore, published, discovered, feature_reports, closes,
                   pumps, unpumped, lastUpdate, nReads, nCO2, nTemp>>

\* self.h.read(8) raises OSError: lines 102-104
ReadOSError ==
    /\ pc = "read"
    /\ readResult' = "oserror"
    /\ pc' = "returned"
    /\ UNCHANGED <<lateSeen, dec_in, dec_out>>
    /\ UNCHANGED <<discovery_prefix, measurements_to_ignore, values, raw, r, m_name,
                   m_reading, ignore, published, discovered, feature_reports, closes,
                   pumps, unpumped, lastUpdate, nReads, nCO2, nTemp>>

\* self.h.read(8) returns no bytes: lines 106-109
ReadEmpty ==
    /\ pc = "read"
    /\ closes' = closes + 1
    /\ readResult' = "empty"
    /\ pc' = "returned"
    /\ UNCHANGED <<lateSeen, dec_in, dec_out>>
    /\ UNCHANGED <<discovery_prefix, measurements_to_ignore, values, raw, r, m_name,
                   m_reading, ignore, published, discovered, feature_reports,
                   pumps, unpumped, lastUpdate, nReads, nCO2, nTemp>>

\* a checksum mismatch that returns from run() instead of continuing
Checksum_abort ==
    /\ pc = "check"
    /\ pc' = IF ChecksumOk(r) THEN "decode" ELSE "returned"
    /\ UNCHANGED <<lateSeen, dec_in, dec_out>>
    /\ UNCHANGED <<readResult, discovery_prefix, measurements_to_ignore, values, raw, r,
                   m_name, m_reading, ignore, published, discovered, feature_reports,
                   closes, pumps, unpumped, lastUpdate, nReads, nCO2, nTemp>>

\* lines 115-117: the checksum test; a mismatch continues the loop
Checksum ==
    /\ pc = "check"
    /\ pc' = IF ChecksumOk(r) THEN "decode" ELSE "read"
    /\ UNCHANGED <<lateSeen, dec_in, dec_out>>
    /\ UNCHANGED <<readResult, discovery_prefix, measurements_to_ignore, values, raw, r, m_name,
                   m_reading, ignore, published, discovered, feature_reports, closes,
                   pumps, unpumped, lastUpdate, nReads, nCO2, nTemp>>

\* lines 119-134: the lookup of the type, the conversion and the gate's test;
\* an unknown type continues the loop
Decode ==
    /\ pc = "decode"
    /\ IF KnownType(r)
       THEN /\ m_name' = MeasName(r[0])
            /\ m_reading' = Conversion(r[0], MVal(r))
            /\ ignore' = Ignore(measurements_to_ignore)
            /\ nCO2' = IF MeasName(r[0]) = "CO2" THEN nCO2 + 1 ELSE nCO2
            /\ nTemp' = IF MeasName(r[0]) = "Temperature" THEN nTemp + 1 ELSE nTemp
            /\ lateSeen' = IF nCO2 >= 5
                           THEN lateSeen \cup {<<MeasName(r[0]), Conversion(r[0], MVal(r))>>}
                           ELSE lateSeen
            /\ pc' = "gate"
       ELSE /\ pc' = "read"
            /\ UNCHANGED <<m_name, m_reading, ignore, nCO2, nTemp, lateSeen>>
    /\ UNCHANGED <<dec_in, dec_out>>
    /\ UNCHANGED <<readResult, discovery_prefix, measurements_to_ignore, values, raw, r,
                   published, discovered, feature_reports, closes,
                   pumps, unpumped, lastUpdate, nReads>>

\* lines 136-137: update is called unless the reading is ignored
Gate ==
    /\ pc = "gate"
    /\ IF ~ignore
       THEN LET u == update(values, m_name, m_reading)
            IN  /\ values' = u.values
                /\ published' = published \o u.publish
                /\ unpumped' = unpumped + Len(u.publish)
                /\ lastUpdate' = u.outcome
       ELSE /\ lastUpdate' = "ignored"
            /\ UNCHANGED <<values, published, unpumped>>
    /\ pc' = "pump"
    /\ UNCHANGED <<lateSeen, dec_in, dec_out>>
    /\ UNCHANGED <<readResult, discovery_prefix, measurements_to_ignore, raw, r, m_name, m_reading,
                   ignore, discovered, feature_reports, closes, pumps, nReads, nCO2,
                   nTemp>>

\* the loop without the call of line 138
Pump_missing ==
    /\ pc = "pump"
    /\ pc' = "count"
    /\ UNCHANGED <<lateSeen, dec_in, dec_out>>
    /\ UNCHANGED <<readResult, discovery_prefix, measurements_to_ignore, values, raw, r,
                   m_name, m_reading, ignore, published, discovered, feature_reports,
                   closes, pumps, unpumped, lastUpdate, nReads, nCO2, nTemp>>

\* line 138: self.m.run(0.1)
Pump ==
    /\ pc = "pump"
    /\ pumps' = pumps + 1
    /\ unpumped' = 0
    /\ pc' = "count"
    /\ UNCHANGED <<lateSeen, dec_in, dec_out>>
    /\ UNCHANGED <<readResult, discovery_prefix, measurements_to_ignore, values, raw, r, m_name,
                   m_reading, ignore, published, discovered, feature_reports, closes,
                   lastUpdate, nReads, nCO2, nTemp>>

\* lines 140-141: the calibration counter
Countdown ==
    /\ pc = "count"
    /\ measurements_to_ignore' = AfterReading(m_name, measurements_to_ignore)
    /\ pc' = "read"
    /\ UNCHANGED <<lateSeen, dec_in, dec_out>>
    /\ UNCHANGED <<readResult, discovery_prefix, values, raw, r, m_name, m_reading, ignore,
                   published, discovered, feature_reports, closes, pumps, unpumped,
                   lastUpdate, nReads, nCO2, nTemp>>

----------------------------------------------------------------------------
(* ZyTemp.__del__: runs once, after run() has returned and the object is dropped *)

Del ==
    /\ pc = "returned"
    /\ closes' = closes + 1
    /\ pc' = "finalized"
    /\ UNCHANGED <<lateSeen, dec_in, dec_out>>
    /\ UNCHANGED <<readResult, discovery_prefix, measurements_to_ignore, values, raw, r, m_name,
                   m_reading, ignore, published, discovered, feature_reports,
                   pumps, unpumped, lastUpdate, nReads, nCO2, nTemp>>

----------------------------------------------------------------------------

Next ==
    \/ Discovery
    \/ ReadFrame
    \/ ReadOSError
    \/ ReadEmpty
    \/ Checksum
    \/ Decode
    \/ Gate
    \/ Pump
    \/ Countdown
    \/ Del

Spec == Init /\ [][Next]_vars

TypeOK ==
    /\ pc \in {"start", "read", "check", "decode", "gate", "pump", "count",
               "returned", "finalized"}
    /\ measurements_to_ignore \in 0..IGNORE_N_MEASUREMENTS
    /\ \A i \in 0..7 : r[i] \in Byte /\ raw[i] \in Byte
    /\ DOMAIN values = Names

----------------------------------------------------------------------------
(* decrypt as a function: a pair of 8-byte inputs is drawn and transformed *)

\* byte values tried at each position: every single bit, none and all
SampleBytes == {0, 1, 2, 4, 8, 16, 32, 64, 128, 255}

\* the blocks the inputs are varied from: all zero, and an obfuscated report
BaseBlocks == {NoFrame, Bytes8(<<119, 228, 246, 32, 14, 70, 191, 194>>)}

\* the 8-byte inputs: a base block with one byte replaced by a sample byte
DecryptInputs ==
    {[base EXCEPT ![i] = b] : base \in BaseBlocks, i \in 0..7, b \in SampleBytes}

\* decrypt(KEY, data) on the inputs, computed once
DecryptTable == [data \in DecryptInputs |-> decrypt(KEY, data)]

InitDecrypt ==
    /\ pc = "decrypt"
    /\ discovery_prefix = ""
    /\ measurements_to_ignore = IGNORE_N_MEASUREMENTS
    /\ values = [n \in Names |-> None]
    /\ raw = NoFrame
    /\ r = NoFrame
    /\ m_name = "-"
    /\ m_reading = 0
    /\ ignore = FALSE
    /\ published = <<>>
    /\ discovered = <<>>
    /\ feature_reports = <<FEATURE_REPORT>>
    /\ closes = 0
    /\ pumps = 0
    /\ unpumped = 0
    /\ lastUpdate = "-"
    /\ readResult = "-"
    /\ nReads = 0
    /\ nCO2 = 0
    /\ nTemp = 0
    /\ lateSeen = {}
    /\ dec_in \in DecryptInputs \X DecryptInputs
    /\ dec_out = <<>>

\* both inputs go through decrypt(KEY, .)
ApplyDecrypt ==
    /\ pc = "decrypt"
    /\ dec_out = <<>>
    /\ dec_out' = <<DecryptTable[dec_in[1]], DecryptTable[dec_in[2]]>>
    /\ UNCHANGED <<pc, discovery_prefix, measurements_to_ignore, values, raw, r, m_name,
                   m_reading, ignore, published, discovered, feature_reports, closes,
                   pumps, unpumped, lastUpdate, readResult, nReads, nCO2, nTemp,
                   lateSeen, dec_in>>

NextDecrypt == ApplyDecrypt

SpecDecrypt == InitDecrypt /\ [][NextDecrypt]_vars

----------------------------------------------------------------------------
(* Properties *)

Complete(snapshot) == \A n \in Names : snapshot[n] # None

Min(a, b) == IF a < b THEN a ELSE b

\* C1: on every termination path the device handle is closed exactly once,
\* counting the close in run() and the close in __del__: never twice, and
\* once the object is finalized exactly once.
C1_ClosedExactlyOnce ==
    /\ closes <= 1
    /\ pc = "finalized" => closes = 1

\* C2: every snapshot published on the state topic has an entry for every
\* measurement name and none of them is None.
C2_PublishedComplete ==
    \A i \in 1..Len(published) :
        /\ DOMAIN published[i] = Names
        /\ Complete(published[i])

\* two snapshots were published, the second after a change of one value
C2_Witness ==
    /\ Len(published) >= 2
    /\ published[1] # published[2]

\* C3: after each iteration of the loop, whatever the outcome of the frame,
\* self.m.run has been called exactly once since the device read.
C3_PumpOncePerFrame ==
    (pc = "read" /\ nReads > 0) => pumps = 1

\* C4: while the calibration counter is positive no reading of any kind has
\* been stored in the cache and nothing has been published.
C4_WindowSuppresses ==
    measurements_to_ignore > 0 =>
        /\ \A n \in Names : values[n] = None
        /\ published = <<>>

\* a Temperature reading and CO2 readings were decoded inside the window, the
\* Temperature reading being the one just suppressed
C4_Witness ==
    /\ measurements_to_ignore > 0
    /\ pc = "read"
    /\ nCO2 > 0
    /\ m_name = "Temperature"
    /\ lastUpdate = "ignored"

\* C5: between iterations the counter is 5 - min(5, k) after k decoded CO2
\* readings, so it never goes below 0 and Temperature readings leave it
\* alone; a decoded CO2 reading is suppressed iff it is one of the first 5.
C5_Countdown ==
    /\ measurements_to_ignore >= 0
    /\ pc \in {"read", "check", "decode"} =>
           measurements_to_ignore = 5 - Min(5, nCO2)
    /\ (pc = "pump" /\ m_name = "CO2") => (lastUpdate = "ignored" <=> nCO2 <= 5)

\* the counter has just reached 0 with the 5th decoded CO2 reading, and
\* Temperature readings were decoded on the way
C5_Witness ==
    /\ pc = "read"
    /\ nCO2 = 5
    /\ nTemp > 0
    /\ m_name = "CO2"
    /\ measurements_to_ignore = 0

\* C6: a call of update with the value already stored for the name changes
\* neither the cache nor the published snapshots.
C6_SameValueNoOp ==
    [][(pc = "gate" /\ ~ignore /\ values[m_name] = <<m_reading>>)
          => (values' = values /\ published' = published)]_vars

\* update returned at its equality test on a complete cache, after a publish
C6_Witness ==
    /\ lastUpdate = "same"
    /\ pc = "pump"
    /\ Complete(values)
    /\ Len(published) >= 1

\* C7: on a complete cache an admitted reading that differs from the stored
\* value publishes exactly one snapshot, the cache with that value replaced;
\* snapshots are published only by update, one at a time, and only when the
\* cache is complete after the store.
C7_ChangePublishes ==
    [][/\ (pc = "gate" /\ ~ignore /\ Complete(values)
             /\ values[m_name] # <<m_reading>>)
          => published' = Append(published, [values EXCEPT ![m_name] = <<m_reading>>])
       /\ published' # published
          => /\ pc = "gate"
             /\ Len(published') = Len(published) + 1
             /\ Complete(values')
             /\ published'[Len(published')] = values']_vars

\* a second snapshot was published for a change of one value
C7_Witness ==
    /\ lastUpdate = "published"
    /\ pc = "pump"
    /\ Len(published) = 2
    /\ published[2][m_name] = <<m_reading>>
    /\ published[1][m_name] # <<m_reading>>

\* C8: a frame discarded for its checksum or for its unknown type changes
\* neither the cache nor the counter, publishes nothing and sends the loop
\* back to the device read.
C8_DiscardKeepsState ==
    [][((pc = "check" /\ r[3] # (r[0] + r[1] + r[2]) % 256)
          \/ (pc = "decode" /\ r[0] \notin {66, 80}))
          => /\ values' = values
             /\ measurements_to_ignore' = measurements_to_ignore
             /\ published' = published
             /\ pc' = "read"]_vars

\* a frame of unknown type was discarded on a complete cache and the loop is
\* back at the device read
C8_Witness ==
    /\ pc = "read"
    /\ readResult = "frame"
    /\ r[0] \notin {66, 80}
    /\ r[3] = (r[0] + r[1] + r[2]) % 256
    /\ Complete(values)

\* C9: once the device read has raised an OS error or returned no bytes the
\* session has left the loop, and nothing of the session changes afterwards:
\* no read, no decode, no cache or counter change, no publish, no pump.
C9_TerminationFinal ==
    /\ [](readResult \in {"oserror", "empty"} => pc \in {"returned", "finalized"})
    /\ [][(readResult \in {"oserror", "empty"})
            => (UNCHANGED <<readResult, nReads, raw, r, m_name, m_reading, values,
                            measurements_to_ignore, published, discovered, pumps,
                            nCO2, nTemp, lastUpdate>>)]_vars

\* the read failed after snapshots had been published
C9_Witness ==
    /\ readResult = "oserror"
    /\ pc = "finalized"
    /\ Len(published) >= 1

\* decrypt(KEY, data) on the reports of the model, computed once
DecryptOf == [data \in RawFrames |-> decrypt(KEY, data)]

\* for each report of the model: its candidate with any one of bytes 0..2
\* changed to any other byte fails the checksum test (computed once)
ChangedByteRejected ==
    [data \in RawFrames |->
        LET c == IF data[4] = 13 THEN data ELSE DecryptOf[data]
        IN  \A i \in 0..2 : \A b \in Byte \ {c[i]} :
                ~ChecksumOk([c EXCEPT ![i] = b])]

\* C10: the candidate goes on to decoding iff its byte 3 is the sum of its
\* bytes 0..2 modulo 256, and an accepted candidate with any one of bytes
\* 0..2 changed fails the checksum test.
C10_ChecksumGate ==
    /\ [][pc = "check"
            => LET c == IF raw[4] = 13 THEN raw ELSE DecryptOf[raw]
               IN  pc' = "decode" <=> c[3] = (c[0] + c[1] + c[2]) % 256]_vars
    /\ [](pc = "decode" => ChangedByteRejected[raw])

\* a transformed candidate whose byte sum exceeds 255 was accepted
C10_Witness ==
    /\ pc = "decode"
    /\ raw[4] # 13
    /\ r[0] + r[1] + r[2] > 255

\* the candidate of the report last read, stated from the report
CandidateOfRaw == IF raw[4] = 13 THEN raw ELSE DecryptOf[raw]

\* C11 as stated: a validated frame with tag 0x42 and raw value 0x1194 decodes
\* to Temperature 8.85 degrees C (14160 / 1600), and one with tag 0x50 and
\* raw value 0x0258 to CO2 600 ppm.
C11_Decodes885 ==
    pc = "gate" =>
        /\ (r[0] = 66 /\ r[1] = 17 /\ r[2] = 148)
              => (m_name = "Temperature" /\ m_reading = 14160)
        /\ (r[0] = 80 /\ r[1] = 2 /\ r[2] = 88)
              => (m_name = "CO2" /\ m_reading = 600)

\* C11 amended: a validated frame with tag 0x42 and raw value 0x1194 (4500)
\* decodes to Temperature 4500/16 - 273.15 = 8.10 degrees C (12960 / 1600),
\* and one with tag 0x50 and raw value 0x0258 to CO2 600 ppm.
C11_Decodes810 ==
    pc = "gate" =>
        /\ (r[0] = 66 /\ r[1] = 17 /\ r[2] = 148)
              => (m_name = "Temperature" /\ m_reading = 12960)
        /\ (r[0] = 80 /\ r[1] = 2 /\ r[2] = 88)
              => (m_name = "CO2" /\ m_reading = 600)

\* the Temperature frame with raw value 0x1194 was decoded from an
\* obfuscated report
C11_Witness ==
    /\ pc = "gate"
    /\ raw[4] # 13
    /\ r[0] = 66 /\ r[1] = 17 /\ r[2] = 148
    /\ m_name = "Temperature"

\* C12: with the window closed and the cache empty, a valid Temperature frame
\* alone publishes nothing (nothing is published while an entry is None), and
\* the valid CO2 frame after it publishes the first and only snapshot, with
\* the stored Temperature and the CO2 value of that frame.
C12_TemperatureThenCO2 ==
    /\ []((\E n \in Names : values[n] = None) => published = <<>>)
    /\ [][(pc = "gate" /\ measurements_to_ignore = 0 /\ m_name = "CO2"
             /\ values["Temperature"] # None /\ values["CO2"] = None)
            => published' = <<[n \in Names |-> IF n = "CO2" THEN <<m_reading>>
                                                ELSE values[n]]>>]_vars

\* the 6th frame was the Temperature frame and the 7th, an obfuscated CO2
\* frame, has just caused the only publish
C12_Witness ==
    /\ pc = "pump"
    /\ nReads = 7
    /\ nCO2 = 6
    /\ nTemp = 1
    /\ m_name = "CO2"
    /\ raw[4] # 13
    /\ Len(published) = 1
    /\ published[1]["CO2"] = <<m_reading>>
    /\ published[1]["Temperature"] # None

\* C13: discovery documents are published only before the first device read
\* and before any snapshot; once the loop runs there is exactly one per
\* measurement name if the discovery prefix is non-empty, and none at all if
\* it is empty.
C13_DiscoveryOnce ==
    /\ [](discovery_prefix = "" => discovered = <<>>)
    /\ []((discovery_prefix # "" /\ pc # "start")
            => /\ Len(discovered) = Cardinality(Names)
               /\ \A n \in Names :
                    Cardinality({i \in 1..Len(discovered) : discovered[i] = n}) = 1)
    /\ [][discovered' # discovered
            => (nReads = 0 /\ readResult = "-" /\ published = <<>> /\ pc' = "read"
                /\ nReads' = 0 /\ published' = <<>>)]_vars

\* with a prefix, both documents were published and snapshots followed
C13_Witness ==
    /\ discovery_prefix # ""
    /\ Len(discovered) = 2
    /\ Len(published) >= 1

\* C14: the cache always has exactly the keys Temperature and CO2, and an
\* entry that holds a value never returns to None.
C14_CacheShape ==
    /\ [](DOMAIN values = {"Temperature", "CO2"})
    /\ [][\A n \in {"Temperature", "CO2"} : values[n] # None => values'[n] # None]_vars

\* both entries hold a value and the Temperature entry has just been replaced
C14_Witness ==
    /\ pc = "pump"
    /\ lastUpdate = "published"
    /\ m_name = "Temperature"
    /\ Len(published) >= 2
    /\ values["CO2"] # None

\* C15: for the fixed key, two different 8-byte inputs never have the same
\* output of decrypt, and every output is 8 bytes in 0..255.
C15_DecryptInjective ==
    dec_out # <<>> =>
        /\ dec_in[1] # dec_in[2] => dec_out[1] # dec_out[2]
        /\ \A k \in 1..2 :
              /\ DOMAIN dec_out[k] = 0..7
              /\ \A i \in 0..7 : dec_out[k][i] \in 0..255

\* two inputs that differ only in the lowest bit of one byte were transformed
C15_Witness ==
    /\ dec_out # <<>>
    /\ \E i \in 0..7 :
          /\ dec_in[1][i] = 0
          /\ dec_in[2][i] = 1
          /\ \A j \in 0..7 \ {i} : dec_in[1][j] = dec_in[2][j]

\* C16: a report with raw[4] = 0x0d is checked and decoded as it is, and a
\* report with raw[4] # 0x0d is checked and decoded as decrypt(KEY, raw).
C16_PlaintextBypass ==
    pc \in {"check", "decode", "gate"} =>
        /\ raw[4] = 13 => r = raw
        /\ raw[4] # 13 => r = DecryptOf[raw]
        /\ pc = "gate" =>
              /\ m_name = MeasName(CandidateOfRaw[0])
              /\ m_reading = Conversion(CandidateOfRaw[0],
                                        CandidateOfRaw[1] * 256 + CandidateOfRaw[2])

\* a plaintext report was decoded as it is, and the transform would have
\* changed it
C16_Witness ==
    /\ pc = "gate"
    /\ raw[4] = 13
    /\ r = raw
    /\ DecryptOf[raw] # raw

\* C17: in every state of a session, so before the first device read and ever
\* after, exactly one feature command has been sent, and its 8 bytes are the
\* key that run() passes to decrypt.
C17_OneFeatureReport ==
    /\ Len(feature_reports) = 1
    /\ DOMAIN feature_reports[1] = 0..7
    /\ \A i \in 0..7 : feature_reports[1][i] = KEY[i]

\* an obfuscated report has been transformed with the key
C17_Witness ==
    /\ pc = "check"
    /\ raw[4] # 13
    /\ r = DecryptOf[raw]
    /\ Len(feature_reports) = 1

\* C18: two consecutive published snapshots differ in the value of exactly one
\* measurement name: never in none, never in both.
C18_OneChangePerPublish ==
    \A i \in 1..(Len(published) - 1) :
        Cardinality({n \in Names : published[i][n] # published[i + 1][n]}) = 1

\* three snapshots were published, the Temperature and the CO2 value each
\* changing once
C18_Witness ==
    /\ Len(published) = 3
    /\ published[1]["Temperature"] # published[3]["Temperature"]
    /\ published[1]["CO2"] # published[3]["CO2"]

\* C19: the session is never at a device read, nor past the loop, with a
\* snapshot published since the last call of self.m.run; at most one snapshot
\* is ever waiting for that call.
C19_PublishThenPump ==
    /\ unpumped <= 1
    /\ pc \in {"read", "returned", "finalized"} => unpumped = 0

\* a snapshot was published and self.m.run called once in the iteration that
\* has just ended
C19_Witness ==
    /\ pc = "read"
    /\ lastUpdate = "published"
    /\ readResult = "frame"
    /\ ChecksumOk(r) /\ KnownType(r)
    /\ pumps = 1
    /\ unpumped = 0

\* C20: when a snapshot has been published, at least 6 CO2 readings have been
\* decoded, a Temperature reading was decoded after the 5th decoded CO2
\* reading, and every value of every published snapshot was decoded in a
\* reading after the 5th decoded CO2 reading.
C20_NothingFromTheWindow ==
    published # <<>> =>
        /\ nCO2 >= 6
        /\ \E x \in lateSeen : x[1] = "Temperature"
        /\ \A i \in 1..Len(published) : \A n \in Names :
              <<n, published[i][n][1]>> \in lateSeen

\* the first snapshot was published with the 6th CO2 reading, after one
\* Temperature reading was lost in the window and one came after it
C20_Witness ==
    /\ Len(published) = 1
    /\ nCO2 = 6
    /\ nTemp = 2
    /\ Cardinality({x \in lateSeen : x[1] = "Temperature"}) = 1
    /\ nReads = 8

====
